---------------------------- MODULE Spec2Model ----------------------------
(***************************************************************************)
(* State-machine model of gravity-api (src/main.go): a command-line        *)
(* client that keeps {url, token} in a configuration file, issues HTTP     *)
(* requests through the external program httpstat and selects from the     *)
(* response with cat | jq.                                                 *)
(*                                                                         *)
(* Strings are sequences of atoms (an atom is a character or an opaque     *)
(* chunk of text), so that "" is << >>, fmt.Sprintf("%s%s", a, b) is       *)
(* a \o b, and strings.Contains / strings.Replace / splitting are computed *)
(* on the sequence.                                                        *)
(*                                                                         *)
(* Three specifications share the module:                                  *)
(*   Spec         one command-line invocation after another (main.go       *)
(*                214-501, 503-519, 541-641)                               *)
(*   SpecFlatten  getQueryStringFromJSONFile applied to a parameter file   *)
(*                (main.go 643-720)                                        *)
(*   SpecJq       the processes and goroutines of executeJqCommand         *)
(*                (main.go 521-539), with weak fairness: the Go scheduler  *)
(*                and the operating system run whatever can run            *)
(***************************************************************************)
EXTENDS Integers, Sequences, FiniteSets, TLC

VARIABLES
    \* ---- the command-line invocation (Spec)
    stored,       \* the configuration file: [exists, URL, Token]
    before,       \* the configuration file when the running command started
    config,       \* the Configuration value the running command holds
    cmd,          \* the flags of the running command
    env,          \* what the outside world answers during the command
    pc,           \* position in the running command
    err,          \* the error the command returned (<< >>: nil)
    body,         \* json, the value getData returned
    queryString,  \* the query string of get / delete
    io,           \* the I/O the command has done so far, in order
    invocations,  \* the calls of Command.Execute: <<[name, args]>>
    output,       \* the report httpstat printed
    jqOutput,     \* what executeJqCommand returned
    \* ---- the flattener alone (SpecFlatten)
    fpc, ffile, forder, fres,
    \* ---- executeJqCommand alone (SpecJq)
    jpc,          \* position of the calling goroutine
    jenv,         \* [catLaunch, jqLaunch, chunks]
    cat,          \* the cat process: none | running | exited | failed
    catLeft,      \* chunks of the artifact cat has still to write
    osOut,        \* chunks in the OS pipe between cat and its copy goroutine
    g1,           \* goroutine io.Copy(w, cat's stdout): none|reading|writing|done
    wPending,     \* a Write on the io.Pipe waits for a reader
    wClosed,      \* w.Close() has been called
    g2,           \* goroutine io.Copy(jq's stdin, r): none|reading|writing|done
    jq,           \* the jq process: none | running | exited | failed
    jqRead,       \* chunks jq has read from its stdin
    jqBuffer,     \* bytes.Buffer collecting jq's stdout
    jres          \* what executeJqCommand returned: [returned, out, err]

cliVars == <<stored, before, config, cmd, env, pc, err, body, queryString,
             io, invocations, output, jqOutput>>
flatVars == <<fpc, ffile, forder, fres>>
jqVars == <<jpc, jenv, cat, catLeft, osOut, g1, wPending, wClosed, g2, jq,
            jqRead, jqBuffer, jres>>
vars == <<cliVars, flatVars, jqVars>>

---------------------------------------------------------------------------
(* Bounds of the model *)

\* the largest integer value of a parameter file
MaxInt == 12
\* the largest number of chunks the response artifact is streamed in
MaxChunks == 2

---------------------------------------------------------------------------
(* Strings *)

Empty == << >>

\* strings.Contains(s, sub)
Contains(s, sub) ==
    \E i \in 0..(Len(s) - Len(sub)) :
        \A j \in 1..Len(sub) : s[i + j] = sub[j]

\* strings.Replace(s, old, "", -1) for a one-atom old
RECURSIVE RemoveAtom(_, _)
RemoveAtom(s, a) ==
    IF s = << >> THEN << >>
    ELSE IF Head(s) = a THEN RemoveAtom(Tail(s), a)
    ELSE <<Head(s)>> \o RemoveAtom(Tail(s), a)

\* strings.Replace(s, "\r\n", "", -1)
RECURSIVE RemoveCRLF(_)
RemoveCRLF(s) ==
    IF Len(s) < 2 THEN s
    ELSE IF s[1] = "\r" /\ s[2] = "\n" THEN RemoveCRLF(SubSeq(s, 3, Len(s)))
    ELSE <<Head(s)>> \o RemoveCRLF(Tail(s))

\* strings.Split(s, sep) for a one-atom sep
RECURSIVE Split(_, _)
Split(s, sep) ==
    IF \A i \in 1..Len(s) : s[i] # sep THEN <<s>>
    ELSE LET i == CHOOSE k \in 1..Len(s) :
                      s[k] = sep /\ \A m \in 1..(k - 1) : s[m] # sep
         IN  <<SubSeq(s, 1, i - 1)>> \o Split(SubSeq(s, i + 1, Len(s)), sep)

Digit(n) == <<"0", "1", "2", "3", "4", "5", "6", "7", "8", "9">>[n + 1]

RECURSIVE Digits(_)
Digits(n) == IF n < 10 THEN <<Digit(n)>> ELSE Digits(n \div 10) \o <<Digit(n % 10)>>

\* fmt.Sprintf("%d", n)
FormatInt(n) == IF n < 0 THEN <<"-">> \o Digits(-n) ELSE Digits(n)

\* fmt.Sprintf("%f", x) for x = tenths / 10, x >= 0: six decimals
FormatFloat(tenths) ==
    Digits(tenths \div 10) \o <<".", Digit(tenths % 10), "0", "0", "0", "0", "0">>

\* the permutations of a finite set, as sequences
Perms(S) ==
    {p \in [1..Cardinality(S) -> S] : \A i, j \in 1..Cardinality(S) : i # j => p[i] # p[j]}

---------------------------------------------------------------------------
(* JSON parameter files *)

JInt(n)    == [t |-> "int",    n |-> n, s |-> Empty]
JFloat(x)  == [t |-> "float",  n |-> x, s |-> Empty]   \* n tenths
JBool(b)   == [t |-> "bool",   n |-> IF b THEN 1 ELSE 0, s |-> Empty]
JString(s) == [t |-> "string", n |-> 0, s |-> s]
JObject    == [t |-> "object", n |-> 0, s |-> Empty]
JArray     == [t |-> "array",  n |-> 0, s |-> Empty]
JNull      == [t |-> "null",   n |-> 0, s |-> Empty]

ScalarTypes == {"int", "float", "bool", "string"}

Keys == {"a", "b"}

ScalarValues ==
    {JInt(-1), JInt(0), JInt(MaxInt), JFloat(15), JBool(TRUE), JBool(FALSE),
     JString(<<"x">>), JString(<<"x", "&", "y">>), JString(<<"x", "=", "y">>)}
JSONValues == ScalarValues \cup {JObject, JArray, JNull}

\* a text that may hold JSON, with what it parses to: a missing file, the
\* empty string, text that is not JSON, a JSON array, or a JSON object
NoObject == [k \in {} |-> JNull]
FileMissing   == [kind |-> "missing",   obj |-> NoObject, text |-> Empty]
FileMalformed == [kind |-> "malformed", obj |-> NoObject, text |-> <<"{", "\n">>]
FileArray     == [kind |-> "array",     obj |-> NoObject, text |-> <<"[", "\r", "\n", "]", "\n">>]
FileObject(o) == [kind |-> "object",    obj |-> o,        text |-> <<"{", "\r", "\n", "...", "\n", "}">>]

Objects(vals) == UNION {[ks -> vals] : ks \in SUBSET Keys}

\* isJSON(input): the text parses as JSON
isJSON(f) == f.kind \in {"array", "object"}

\* lines 698-720: json.Unmarshal(*jsonObj, &value).  A JSON null is a nil
\* *json.RawMessage in map[string]*json.RawMessage (encoding/json sets a
\* pointer to nil on null), and *jsonObj dereferences it: a run-time panic.
\* A JSON integer also unmarshals into a float64.
getIntFromJSON(v) ==
    [panic |-> v.t = "null", err |-> v.t # "int", value |-> v.n]
getFloatFromJSON(v) ==
    [panic |-> v.t = "null", err |-> v.t \notin {"int", "float"}, value |-> v.n]
getBoolFromJSON(v) ==
    [panic |-> v.t = "null", err |-> v.t # "bool", value |-> (v.n = 1)]
getStringFromJSON(v) ==
    [panic |-> v.t = "null", err |-> v.t # "string", value |-> v.s]

\* lines 662-682: the pairs one key appends to array (none when it is skipped)
PairOf(k, v) ==
    IF getIntFromJSON(v).err THEN
        IF getFloatFromJSON(v).err THEN
            IF getBoolFromJSON(v).err THEN
                IF getStringFromJSON(v).err THEN << >>
                ELSE <<(<<k, "=">> \o getStringFromJSON(v).value)>>
            ELSE IF getBoolFromJSON(v).value
                 THEN <<(<<k, "=", "true">>)>>
                 ELSE <<(<<k, "=", "false">>)>>
        ELSE <<(<<k, "=">> \o FormatFloat(getFloatFromJSON(v).value))>>
    ELSE <<(<<k, "=">> \o FormatInt(getIntFromJSON(v).value))>>

\* lines 660-683: the loop over objmap, its keys visited in the order `order`
\* (Go ranges over a map in an unspecified order): [panic, array]
RECURSIVE RangeObjmap(_, _)
RangeObjmap(obj, order) ==
    IF order = << >> THEN [panic |-> FALSE, array |-> << >>]
    ELSE IF getIntFromJSON(obj[Head(order)]).panic
         THEN [panic |-> TRUE, array |-> << >>]
    ELSE LET rest == RangeObjmap(obj, Tail(order))
         IN  [panic |-> rest.panic,
              array |-> PairOf(Head(order), obj[Head(order)]) \o rest.array]

\* lines 685-695: "?" before the first pair, "&" before the others
RECURSIVE BuildFrom(_, _)
BuildFrom(array, i) ==
    IF i > Len(array) THEN << >>
    ELSE (IF i = 1 THEN <<"?">> ELSE <<"&">>) \o array[i] \o BuildFrom(array, i + 1)

\* getQueryStringFromJSONFile(path), the file holding f: [status, q]
getQueryStringFromJSONFile(f, order) ==
    IF f.kind = "missing" THEN [status |-> "errRead", q |-> Empty]
    ELSE IF ~isJSON(f) THEN [status |-> "InvalidJSON", q |-> Empty]
    ELSE IF f.kind # "object" THEN [status |-> "errUnmarshal", q |-> Empty]
    ELSE LET r == RangeObjmap(f.obj, order)
         IN  IF r.panic THEN [status |-> "panic", q |-> Empty]
             ELSE [status |-> "ok", q |-> BuildFrom(r.array, 1)]

---------------------------------------------------------------------------
(* The configuration store *)

URL1 == <<"https://api.example.com">>
URL2 == <<"https://test.gravity.com">>
Token1 == <<"abc">>
Token2 == <<"xyz">>

Configuration(u, t) == [URL |-> u, Token |-> t]

\* the configuration file: absent, or holding a Configuration
StoredConfigs ==
    {[exists |-> FALSE, URL |-> Empty, Token |-> Empty]}
    \cup {[exists |-> TRUE, URL |-> u, Token |-> t] :
             u \in {Empty, URL1}, t \in {Empty, Token1}}

\* getStoredConfiguration(configPath, &config): [err, config]
getStoredConfiguration(st) ==
    IF ~st.exists THEN [err |-> "ConfigMissing", config |-> Configuration(Empty, Empty)]
    ELSE [err |-> "nil", config |-> Configuration(st.URL, st.Token)]

\* getConfigurationBytes(url, token, &config): the Configuration serialised
getConfigurationBytes_NoKeep(url, token, c) == Configuration(url, token)
getConfigurationBytes(url, token, c) ==
    Configuration(IF url # Empty THEN url ELSE c.URL,
                  IF token # Empty THEN token ELSE c.Token)

\* writeConfiguration(configPath, bytes): the file is created or overwritten
writeConfiguration(c) == [exists |-> TRUE, URL |-> c.URL, Token |-> c.Token]

\* getValidatedConfiguration(): [err, config]
getValidatedConfiguration_TokenFirst(st) ==
    LET r == getStoredConfiguration(st)
    IN  IF r.err # "nil" THEN r
        ELSE IF r.config.Token = Empty THEN [err |-> "NotAuthenticated", config |-> r.config]
        ELSE IF r.config.URL = Empty THEN [err |-> "NotConfigured", config |-> r.config]
        ELSE r
getValidatedConfiguration(st) ==
    LET r == getStoredConfiguration(st)
    IN  IF r.err # "nil" THEN r
        ELSE IF r.config.URL = Empty THEN [err |-> "NotConfigured", config |-> r.config]
        ELSE IF r.config.Token = Empty THEN [err |-> "NotAuthenticated", config |-> r.config]
        ELSE r

---------------------------------------------------------------------------
(* Request bodies *)

NoText   == [kind |-> "empty",     obj |-> NoObject, text |-> Empty]
DataGood == [kind |-> "object",    obj |-> NoObject, text |-> <<"{", "}">>]
DataBad  == [kind |-> "malformed", obj |-> NoObject, text |-> <<"{", "bad">>]

\* getJSONFromFile(path), the file holding f: [err, json]
getJSONFromFile(f) ==
    IF f.kind = "missing" THEN [err |-> "errRead", json |-> Empty]
    ELSE IF ~isJSON(f) THEN [err |-> "InvalidJSON", json |-> Empty]
    ELSE [err |-> "nil", json |-> RemoveAtom(RemoveCRLF(f.text), "\n")]

\* getData(c): [err, json, io], io the reads it did
getData(c, f) ==
    IF c.data.text # Empty THEN
        IF ~isJSON(c.data) THEN [err |-> "InvalidJSON", json |-> Empty, io |-> << >>]
        ELSE [err |-> "nil", json |-> c.data.text, io |-> << >>]
    ELSE IF c.file # Empty THEN
        [err |-> getJSONFromFile(f).err, json |-> getJSONFromFile(f).json,
         io |-> <<"readParam">>]
    ELSE [err |-> "nil", json |-> Empty, io |-> << >>]

---------------------------------------------------------------------------
(* The process invoker *)

TempPath == <<"/tmp/gravity-api-response">>
ContentType == <<"Content-Type: application/json">>
OK200 == <<"2", "0", "0", " ", "O", "K">>

\* what httpstat may print
Reports ==
    {<<"HTTP/1.1", " ">> \o OK200 \o <<"\n">>,
     <<"HTTP/1.1", " ", "4", "0", "1", " ", "U">>,
     <<"2", "0", "0", "O", "K">>,
     Empty}

\* what executeJqCommand may return
JqOutputs == {Empty, <<"\"", "tok123", "\"", "\n">>, <<"3", "\n">>}

\* lines 504-513: the argument list executeHTTPCommand passes to httpstat
allArgs(token, args) ==
    <<(<<"-o">>), TempPath>>
    \o (IF token # Empty
        THEN <<(<<"-H">>), (<<"authorization: Bearer ">> \o token)>>
        ELSE << >>)
    \o args

\* Command.Execute("httpstat", ...): it fails, or returns httpstat's report
HttpResults ==
    {[err |-> "SubprocessError", out |-> Empty]}
    \cup {[err |-> "nil", out |-> o] : o \in Reports}

\* executeJqCommand as its callers see it: it returns some text and a nil
\* error, or never returns (SpecJq models its processes and goroutines)
JqResults ==
    {[hang |-> TRUE, out |-> Empty]} \cup {[hang |-> FALSE, out |-> o] : o \in JqOutputs}

---------------------------------------------------------------------------
(* Command lines *)

Resource == <<"/items">>
Selector == <<".">>
ParamPath == <<"params.json">>

Flags(n, u, t, un, pw, d, f) ==
    [name |-> n, url |-> u, token |-> t, username |-> un, password |-> pw,
     resource |-> Resource, selector |-> Selector, data |-> d, file |-> f]

Commands ==
    {Flags("configure", u, t, Empty, Empty, NoText, Empty) :
        u \in {Empty, URL2}, t \in {Empty, Token2}}
    \cup {Flags("login", Empty, Empty, un, pw, NoText, Empty) :
        un \in {Empty, <<"u">>}, pw \in {Empty, <<"p">>}}
    \cup {Flags(n, Empty, Empty, Empty, Empty, NoText, f) :
        n \in {"get", "delete"}, f \in {Empty, ParamPath}}
    \cup {Flags(n, Empty, Empty, Empty, Empty, d, f) :
        n \in {"post", "put", "patch"}, d \in {NoText, DataGood, DataBad},
        f \in {Empty, ParamPath}}

BodyCommands == {"post", "put", "patch"}
QueryCommands == {"get", "delete"}

\* what the file named by --file may hold
CliFiles ==
    {FileMissing, FileMalformed,
     FileObject([k \in {"a"} |-> JInt(MaxInt)]),
     FileObject([k \in {"a", "b"} |-> IF k = "a" THEN JString(<<"x">>) ELSE JNull])}

---------------------------------------------------------------------------
(* Spec: one command-line invocation after another *)

\* no command is running
CliIdle ==
    /\ before = stored
    /\ config = Configuration(Empty, Empty)
    /\ cmd = Flags("none", Empty, Empty, Empty, Empty, NoText, Empty)
    /\ env = [paramFile |-> FileMissing]
    /\ pc = "idle"
    /\ err = "nil"
    /\ body = Empty
    /\ queryString = Empty
    /\ io = << >>
    /\ invocations = << >>
    /\ output = Empty
    /\ jqOutput = Empty

\* the flattener is not under study
FlatOff ==
    /\ fpc = "off" /\ ffile = FileMissing /\ forder = << >>
    /\ fres = [status |-> "none", q |-> Empty]

\* before executeJqCommand starts its processes
JqFresh ==
    /\ cat = "none" /\ catLeft = 0 /\ osOut = 0 /\ g1 = "none"
    /\ wPending = FALSE /\ wClosed = FALSE /\ g2 = "none" /\ jq = "none"
    /\ jqRead = 0 /\ jqBuffer = << >>
    /\ jres = [returned |-> FALSE, out |-> << >>, err |-> "nil"]

\* executeJqCommand is not under study
JqOff ==
    /\ jpc = "off" /\ jenv = [catLaunch |-> FALSE, jqLaunch |-> FALSE, chunks |-> 0]
    /\ JqFresh

Init ==
    /\ stored \in StoredConfigs
    /\ CliIdle
    /\ FlatOff
    /\ JqOff

\* main: app.Run(os.Args) dispatches one command of a fresh process
Invoke ==
    /\ pc \in {"idle", "done", "crashed"}
    /\ \E c \in Commands, f \in CliFiles :
          /\ cmd' = c
          /\ env' = [paramFile |-> f]
    /\ before' = stored
    /\ config' = Configuration(Empty, Empty)
    /\ pc' = "start"
    /\ err' = "nil"
    /\ body' = Empty
    /\ queryString' = Empty
    /\ io' = << >>
    /\ invocations' = << >>
    /\ output' = Empty
    /\ jqOutput' = Empty
    /\ UNCHANGED <<stored, flatVars, jqVars>>

\* the command returns the error e
Return(e) == pc' = "done" /\ err' = e

configureCommand ==
    /\ pc = "start" /\ cmd.name = "configure"
    /\ IF cmd.url = Empty /\ cmd.token = Empty
       THEN /\ Return("NoParameters")
            /\ UNCHANGED <<stored, config, io>>
       ELSE LET c0 == IF stored.exists
                      THEN getStoredConfiguration(stored).config
                      ELSE Configuration(Empty, Empty)
                merged == getConfigurationBytes(cmd.url, cmd.token, c0)
            IN  /\ config' = merged
                /\ stored' = writeConfiguration(merged)
                /\ io' = (IF stored.exists THEN <<"readConfig">> ELSE << >>)
                         \o <<"writeConfig">>
                /\ Return("nil")
    /\ UNCHANGED <<before, cmd, env, body, queryString, invocations, output,
                   jqOutput, flatVars, jqVars>>

\* executeHTTPCommand(&cmd, verbose, token, args) answering r
executeHTTPCommand(token, args, r) ==
    /\ invocations' = Append(invocations, [name |-> "httpstat", args |-> allArgs(token, args)])
    /\ io' = Append(io, "httpstat")
    /\ output' = r.out

\* line 287: the report says the login succeeded
LoginSucceeded_Always(out) == TRUE
LoginSucceeded(out) == Contains(out, OK200)

\* line 296: quotes and newlines stripped from jq's output
StripToken(out) == RemoveAtom(RemoveAtom(out, "\""), "\n")

loginCommand ==
    /\ cmd.name = "login"
    /\ \/ /\ pc = "start"
          /\ IF cmd.username = Empty THEN Return("MissingUsername") /\ UNCHANGED <<config, io>>
             ELSE IF cmd.password = Empty THEN Return("MissingPassword") /\ UNCHANGED <<config, io>>
             ELSE LET r == getStoredConfiguration(stored)
                  IN  /\ io' = Append(io, "readConfig")
                      /\ IF r.err # "nil" THEN Return(r.err) /\ UNCHANGED config
                         ELSE config' = r.config /\ pc' = "http" /\ UNCHANGED err
          /\ UNCHANGED <<stored, invocations, output, jqOutput>>
       \/ /\ pc = "http"
          /\ \E r \in HttpResults :
                /\ executeHTTPCommand(Empty,
                      <<(<<"-X">>), (<<"POST">>), (<<"-d">>),
                        (<<"grant_type=password&username=">> \o cmd.username
                            \o <<"&password=">> \o cmd.password),
                        (config.URL \o <<"/login">>)>>, r)
                /\ IF r.err # "nil" THEN Return(r.err)
                   ELSE IF ~LoginSucceeded(r.out) THEN Return("LoginFailed")
                   ELSE pc' = "jq" /\ UNCHANGED err
          /\ UNCHANGED <<stored, config, jqOutput>>
       \/ /\ pc = "jq"
          /\ \E r \in JqResults :
                /\ io' = Append(io, "jq") \o (IF r.hang THEN << >> ELSE <<"writeConfig">>)
                /\ IF r.hang
                   THEN pc' = "hung" /\ UNCHANGED <<err, jqOutput, stored, config>>
                   ELSE LET merged == getConfigurationBytes(config.URL, StripToken(r.out), config)
                        IN  /\ jqOutput' = r.out
                            /\ config' = merged
                            /\ stored' = writeConfiguration(merged)
                            /\ Return("nil")
          /\ UNCHANGED <<invocations, output>>
    /\ UNCHANGED <<before, cmd, env, body, queryString, flatVars, jqVars>>

\* lines 332-340: executeJqCommand with the selector, then print its output
SelectorStep ==
    /\ pc = "jq"
    /\ \E r \in JqResults :
          /\ io' = Append(io, "jq")
          /\ IF r.hang THEN pc' = "hung" /\ UNCHANGED <<err, jqOutput>>
             ELSE jqOutput' = r.out /\ Return("nil")
    /\ UNCHANGED <<stored, config, body, queryString, invocations, output>>

\* lines 344, 385, 426: --data and --file are both given
ConflictingParameters_Never(c) == FALSE
ConflictingParameters(c) == c.data.text # Empty /\ c.file # Empty

\* lines 343-356 (post), 384-397 (put), 425-438 (patch)
BodyStart_ValidateFirst ==
    /\ pc = "start"
    /\ LET v == getValidatedConfiguration(stored)
           d == getData(cmd, env.paramFile)
       IN  IF ConflictingParameters(cmd)
           THEN Return("ConflictingParameters") /\ UNCHANGED <<io, body, config>>
           ELSE IF v.err # "nil"
           THEN /\ io' = <<"readConfig">>
                /\ Return(v.err) /\ UNCHANGED <<body, config>>
           ELSE /\ io' = <<"readConfig">> \o d.io
                /\ config' = v.config
                /\ IF d.err # "nil" THEN Return(d.err) /\ UNCHANGED body
                   ELSE body' = d.json /\ pc' = "http" /\ UNCHANGED err
    /\ UNCHANGED <<stored, queryString, invocations, output, jqOutput>>
BodyStart ==
    /\ pc = "start"
    /\ IF ConflictingParameters(cmd)
       THEN Return("ConflictingParameters") /\ UNCHANGED <<io, body, config>>
       ELSE LET d == getData(cmd, env.paramFile)
            IN  IF d.err # "nil"
                THEN /\ io' = d.io
                     /\ Return(d.err) /\ UNCHANGED <<body, config>>
                ELSE LET v == getValidatedConfiguration(stored)
                     IN  /\ io' = d.io \o <<"readConfig">>
                         /\ body' = d.json
                         /\ IF v.err # "nil" THEN Return(v.err) /\ UNCHANGED config
                            ELSE config' = v.config /\ pc' = "http" /\ UNCHANGED err
    /\ UNCHANGED <<stored, queryString, invocations, output, jqOutput>>

\* lines 359-367, 400-408, 441-449: the arguments of a body-carrying request
BodyArgs_HeaderIfBody(verb, json, url) ==
    <<(<<"-X">>), verb>>
    \o (IF json # Empty THEN <<(<<"-H">>), ContentType>> ELSE << >>)
    \o <<(<<"-d">>), json, url>>
BodyArgs(verb, json, url) ==
    <<(<<"-X">>), verb, (<<"-H">>), ContentType, (<<"-d">>), json, url>>

\* lines 358-371, 399-412, 440-453
BodyHttp(verb) ==
    /\ pc = "http"
    /\ \E r \in HttpResults :
          /\ executeHTTPCommand(config.Token,
                BodyArgs(verb, body, config.URL \o cmd.resource), r)
          /\ IF r.err # "nil" THEN Return(r.err) ELSE pc' = "jq" /\ UNCHANGED err
    /\ UNCHANGED <<stored, config, body, queryString, jqOutput>>

BodyCommand(verb) == BodyStart \/ BodyHttp(verb) \/ SelectorStep

postCommand ==
    /\ cmd.name = "post" /\ BodyCommand(<<"POST">>)
    /\ UNCHANGED <<before, cmd, env, flatVars, jqVars>>

putCommand ==
    /\ cmd.name = "put" /\ BodyCommand(<<"PUT">>)
    /\ UNCHANGED <<before, cmd, env, flatVars, jqVars>>

patchCommand ==
    /\ cmd.name = "patch" /\ BodyCommand(<<"PATCH">>)
    /\ UNCHANGED <<before, cmd, env, flatVars, jqVars>>

\* lines 308-321 (get), 466-479 (delete)
QueryStart ==
    /\ pc = "start"
    /\ LET v == getValidatedConfiguration(stored)
       IN  IF v.err # "nil"
           THEN /\ io' = <<"readConfig">>
                /\ Return(v.err) /\ UNCHANGED <<queryString, config>>
           ELSE IF cmd.file = Empty
           THEN /\ io' = <<"readConfig">>
                /\ config' = v.config
                /\ pc' = "http" /\ UNCHANGED <<err, queryString>>
           ELSE \E order \in Perms(DOMAIN env.paramFile.obj) :
                  LET q == getQueryStringFromJSONFile(env.paramFile, order)
                  IN  /\ io' = <<"readConfig", "readParam">>
                      /\ config' = v.config
                      /\ IF q.status = "panic"
                         THEN pc' = "crashed" /\ err' = "panic" /\ UNCHANGED queryString
                         ELSE IF q.status # "ok" THEN Return(q.status) /\ UNCHANGED queryString
                         ELSE queryString' = q.q /\ pc' = "http" /\ UNCHANGED err
    /\ UNCHANGED <<stored, body, invocations, output, jqOutput>>

\* lines 323-330, 481-490
QueryHttp(verbArgs) ==
    /\ pc = "http"
    /\ \E r \in HttpResults :
          /\ executeHTTPCommand(config.Token,
                verbArgs \o <<(config.URL \o cmd.resource \o queryString)>>, r)
          /\ IF r.err # "nil" THEN Return(r.err) ELSE pc' = "jq" /\ UNCHANGED err
    /\ UNCHANGED <<stored, config, body, queryString, jqOutput>>

QueryCommand(verbArgs) == QueryStart \/ QueryHttp(verbArgs) \/ SelectorStep

getCommand ==
    /\ cmd.name = "get" /\ QueryCommand(<< >>)
    /\ UNCHANGED <<before, cmd, env, flatVars, jqVars>>

deleteCommand ==
    /\ cmd.name = "delete" /\ QueryCommand(<<(<<"-X">>), (<<"DELETE">>)>>)
    /\ UNCHANGED <<before, cmd, env, flatVars, jqVars>>

Next ==
    \/ Invoke
    \/ configureCommand
    \/ loginCommand
    \/ getCommand
    \/ postCommand
    \/ putCommand
    \/ patchCommand
    \/ deleteCommand

Spec == Init /\ [][Next]_vars

---------------------------------------------------------------------------
(* SpecFlatten: getQueryStringFromJSONFile applied to one parameter file *)

FlattenFiles ==
    {FileMissing, FileMalformed, FileArray}
    \cup {FileObject(o) : o \in Objects(JSONValues)}

InitFlatten ==
    /\ stored = [exists |-> FALSE, URL |-> Empty, Token |-> Empty]
    /\ CliIdle
    /\ JqOff
    /\ fpc = "ready"
    /\ ffile \in FlattenFiles
    /\ forder = << >>
    /\ fres = [status |-> "none", q |-> Empty]

\* the call; the map is ranged over in some order
Flatten ==
    /\ fpc = "ready"
    /\ \E order \in Perms(DOMAIN ffile.obj) :
          /\ forder' = order
          /\ fres' = getQueryStringFromJSONFile(ffile, order)
    /\ fpc' = IF fres'.status = "panic" THEN "crashed" ELSE "returned"
    /\ UNCHANGED <<ffile, cliVars, jqVars>>

NextFlatten == Flatten

SpecFlatten == InitFlatten /\ [][NextFlatten]_vars

---------------------------------------------------------------------------
(* SpecJq: the processes and goroutines of executeJqCommand.               *)
(*                                                                         *)
(* catCommand.Stdout = w and jqCommand.Stdin = r are not *os.File, so      *)
(* os/exec gives each child an OS pipe and starts a goroutine that copies  *)
(* between the OS pipe and the io.Pipe end; Cmd.Wait waits for the child   *)
(* and then for these goroutines.  io.Pipe is unbuffered: a Write returns  *)
(* when a Read has taken its bytes or the read end is closed (the code     *)
(* never closes r); a Read returns EOF once w is closed.  The artifact is  *)
(* streamed in chunks (one io.Copy buffer each); the OS pipe behind cat    *)
(* holds what cat writes.  jq's stdout is copied into jqBuffer.            *)
(***************************************************************************)

InitJq ==
    /\ stored = [exists |-> FALSE, URL |-> Empty, Token |-> Empty]
    /\ CliIdle
    /\ FlatOff
    /\ jpc = "startCat"
    /\ jenv \in [catLaunch : BOOLEAN, jqLaunch : BOOLEAN, chunks : 0..MaxChunks]
    /\ JqFresh

\* line 532: catCommand.Start(), its error discarded
CatStart ==
    /\ jpc = "startCat"
    /\ IF jenv.catLaunch
       THEN cat' = "running" /\ catLeft' = jenv.chunks /\ g1' = "reading"
       ELSE cat' = "failed" /\ UNCHANGED <<catLeft, g1>>
    /\ jpc' = "startJq"
    /\ UNCHANGED <<jenv, osOut, wPending, wClosed, g2, jq, jqRead, jqBuffer, jres,
                   cliVars, flatVars>>

\* line 533: jqCommand.Start(), its error discarded
JqStart ==
    /\ jpc = "startJq"
    /\ IF jenv.jqLaunch
       THEN jq' = "running" /\ g2' = "reading"
       ELSE jq' = "failed" /\ UNCHANGED g2
    /\ jpc' = "waitCat"
    /\ UNCHANGED <<jenv, cat, catLeft, osOut, g1, wPending, wClosed, jqRead,
                   jqBuffer, jres, cliVars, flatVars>>

\* line 534: catCommand.Wait() returns at once if cat was not started, else
\* when cat has exited and its copy goroutine has ended
CatWait ==
    /\ jpc = "waitCat"
    /\ cat = "failed" \/ (cat = "exited" /\ g1 = "done")
    /\ jpc' = "closeW"
    /\ UNCHANGED <<jenv, cat, catLeft, osOut, g1, wPending, wClosed, g2, jq,
                   jqRead, jqBuffer, jres, cliVars, flatVars>>

\* line 535: w.Close()
WClose ==
    /\ jpc = "closeW"
    /\ wClosed' = TRUE
    /\ jpc' = "waitJq"
    /\ UNCHANGED <<jenv, cat, catLeft, osOut, g1, wPending, g2, jq, jqRead,
                   jqBuffer, jres, cliVars, flatVars>>

\* line 536: jqCommand.Wait()
JqWait ==
    /\ jpc = "waitJq"
    /\ jq = "failed" \/ (jq = "exited" /\ g2 = "done")
    /\ jpc' = "return"
    /\ UNCHANGED <<jenv, cat, catLeft, osOut, g1, wPending, wClosed, g2, jq,
                   jqRead, jqBuffer, jres, cliVars, flatVars>>

\* line 538: return string(jqBuffer.Bytes()), nil
JqReturn ==
    /\ jpc = "return"
    /\ jres' = [returned |-> TRUE, out |-> jqBuffer, err |-> "nil"]
    /\ jpc' = "done"
    /\ UNCHANGED <<jenv, cat, catLeft, osOut, g1, wPending, wClosed, g2, jq,
                   jqRead, jqBuffer, cliVars, flatVars>>

\* cat writes a chunk of the artifact to its stdout
CatWrite ==
    /\ cat = "running" /\ catLeft > 0
    /\ catLeft' = catLeft - 1
    /\ osOut' = osOut + 1
    /\ UNCHANGED <<jpc, jenv, cat, g1, wPending, wClosed, g2, jq, jqRead,
                   jqBuffer, jres, cliVars, flatVars>>

\* cat has written the whole artifact and exits
CatExit ==
    /\ cat = "running" /\ catLeft = 0
    /\ cat' = "exited"
    /\ UNCHANGED <<jpc, jenv, catLeft, osOut, g1, wPending, wClosed, g2, jq,
                   jqRead, jqBuffer, jres, cliVars, flatVars>>

\* cat's copy goroutine reads a chunk and calls w.Write, which blocks
G1Read ==
    /\ g1 = "reading" /\ osOut > 0
    /\ osOut' = osOut - 1
    /\ g1' = "writing"
    /\ wPending' = TRUE
    /\ UNCHANGED <<jpc, jenv, cat, catLeft, wClosed, g2, jq, jqRead, jqBuffer,
                   jres, cliVars, flatVars>>

\* cat's copy goroutine reads EOF and ends
G1Eof ==
    /\ g1 = "reading" /\ osOut = 0 /\ cat = "exited"
    /\ g1' = "done"
    /\ UNCHANGED <<jpc, jenv, cat, catLeft, osOut, wPending, wClosed, g2, jq,
                   jqRead, jqBuffer, jres, cliVars, flatVars>>

\* jq's stdin goroutine: r.Read takes the pending chunk, the Write returns
G2Read ==
    /\ g2 = "reading" /\ wPending
    /\ wPending' = FALSE
    /\ g1' = "reading"
    /\ g2' = "writing"
    /\ UNCHANGED <<jpc, jenv, cat, catLeft, osOut, wClosed, jq, jqRead, jqBuffer,
                   jres, cliVars, flatVars>>

\* jq's stdin goroutine: r.Read returns EOF after w.Close(); jq's stdin is closed
G2Eof ==
    /\ g2 = "reading" /\ ~wPending /\ wClosed
    /\ g2' = "done"
    /\ UNCHANGED <<jpc, jenv, cat, catLeft, osOut, g1, wPending, wClosed, jq,
                   jqRead, jqBuffer, jres, cliVars, flatVars>>

\* jq's stdin goroutine hands the chunk to a running jq
G2Write ==
    /\ g2 = "writing" /\ jq = "running"
    /\ jqRead' = jqRead + 1
    /\ g2' = "reading"
    /\ UNCHANGED <<jpc, jenv, cat, catLeft, osOut, g1, wPending, wClosed, jq,
                   jqBuffer, jres, cliVars, flatVars>>

\* jq's stdin goroutine: jq has exited, the write fails with EPIPE and the
\* goroutine ends; r stays open and nobody reads it any more
G2Epipe ==
    /\ g2 = "writing" /\ jq = "exited"
    /\ g2' = "done"
    /\ UNCHANGED <<jpc, jenv, cat, catLeft, osOut, g1, wPending, wClosed, jq,
                   jqRead, jqBuffer, jres, cliVars, flatVars>>

\* jq reads EOF, prints the selection and exits
JqFinish ==
    /\ jq = "running" /\ g2 = "done"
    /\ jqBuffer' = IF jqRead > 0 THEN <<"selected", "\n">> ELSE << >>
    /\ jq' = "exited"
    /\ UNCHANGED <<jpc, jenv, cat, catLeft, osOut, g1, wPending, wClosed, g2,
                   jqRead, jres, cliVars, flatVars>>

\* jq exits before the end of its input (a selector that does not compile,
\* input that is not JSON)
JqExitEarly ==
    /\ jq = "running" /\ g2 # "done"
    /\ jq' = "exited"
    /\ UNCHANGED <<jpc, jenv, cat, catLeft, osOut, g1, wPending, wClosed, g2,
                   jqRead, jqBuffer, jres, cliVars, flatVars>>

NextJq ==
    \/ CatStart \/ JqStart \/ CatWait \/ WClose \/ JqWait \/ JqReturn
    \/ CatWrite \/ CatExit \/ G1Read \/ G1Eof
    \/ G2Read \/ G2Eof \/ G2Write \/ G2Epipe
    \/ JqFinish \/ JqExitEarly

\* whatever can run does run
SpecJq == InitJq /\ [][NextJq]_vars /\ WF_vars(NextJq)

---------------------------------------------------------------------------
(* Properties *)

Range(q) == {q[i] : i \in 1..Len(q)}

RequestCommands == BodyCommands \cup QueryCommands

\* the stored configuration exists and lacks its URL or its token
StoredIncomplete == stored.exists /\ (stored.URL = Empty \/ stored.Token = Empty)

\* C1: when post, put or patch is given both --data and --file, the command
\* has failed with the conflicting-parameters error as soon as it has taken a
\* step, and it has done no I/O: the parameter file and the configuration file
\* were not read, httpstat was not invoked and the selector step did not start.
C1_ConflictBeforeAnyIO ==
    (cmd.name \in BodyCommands /\ cmd.data.text # Empty /\ cmd.file # Empty
        /\ pc # "start")
    => (pc = "done" /\ err = "ConflictingParameters" /\ io = << >>
        /\ invocations = << >>)

C1_Witness ==
    cmd.name = "patch" /\ cmd.data.text # Empty /\ cmd.file # Empty /\ pc = "done"

\* C2: once a request command has validated the stored configuration: an
\* empty URL gives NotConfigured (also with an empty token), a URL without a
\* token gives NotAuthenticated, and validation has succeeded exactly when
\* both are non-empty.
C2_ValidateURLBeforeToken ==
    (cmd.name \in RequestCommands /\ stored.exists /\ "readConfig" \in Range(io))
    => /\ stored.URL = Empty => (pc = "done" /\ err = "NotConfigured")
       /\ (stored.URL # Empty /\ stored.Token = Empty)
             => (pc = "done" /\ err = "NotAuthenticated")
       /\ (stored.URL # Empty /\ stored.Token # Empty)
             <=> (err \notin {"NotConfigured", "NotAuthenticated"}
                  /\ config = Configuration(stored.URL, stored.Token))

C2_Witness ==
    /\ cmd.name = "get" /\ stored.exists /\ "readConfig" \in Range(io)
    /\ stored.URL = Empty /\ stored.Token = Empty
    /\ pc = "done" /\ err = "NotConfigured"

\* C3: the configuration written by configure and by login is the field-wise
\* merge of the configuration read and the new values: a non-empty new value
\* replaces the stored one, an empty one keeps it.
C3_MergeFieldwise ==
    /\ (cmd.name = "configure" /\ pc = "done" /\ err = "nil")
          => stored = [exists |-> TRUE,
                       URL |-> IF cmd.url # Empty THEN cmd.url ELSE before.URL,
                       Token |-> IF cmd.token # Empty THEN cmd.token ELSE before.Token]
    /\ (cmd.name = "login" /\ pc = "done" /\ err = "nil")
          => stored = [exists |-> TRUE,
                       URL |-> before.URL,
                       Token |-> IF StripToken(jqOutput) # Empty
                                 THEN StripToken(jqOutput) ELSE before.Token]

\* configure --url U on a configuration that holds a token changes the URL only
C3_Witness ==
    /\ cmd.name = "configure" /\ pc = "done" /\ err = "nil"
    /\ cmd.url # Empty /\ cmd.token = Empty
    /\ before.Token # Empty /\ stored.Token = before.Token
    /\ stored.URL = cmd.url /\ before.URL # Empty /\ before.URL # cmd.url

\* C4: when login has received httpstat's report and the report does not
\* contain "200 OK", login has failed with LoginFailed, the selector step was
\* not run and the configuration file is as it was before the command.
C4_LoginFailedKeepsConfiguration ==
    (cmd.name = "login" /\ Len(invocations) = 1 /\ err # "SubprocessError"
        /\ ~Contains(output, OK200))
    => (pc = "done" /\ err = "LoginFailed" /\ "jq" \notin Range(io)
        /\ "writeConfig" \notin Range(io) /\ stored = before)

C4_Witness ==
    /\ cmd.name = "login" /\ pc = "done" /\ err = "LoginFailed"
    /\ output = <<"2", "0", "0", "O", "K">> /\ before.Token # Empty

\* C7 as stated: an invocation of httpstat carries the Content-Type header
\* only when the request has a body.
C7_ContentTypeOnlyWithBody ==
    \A i \in 1..Len(invocations) :
        ContentType \in Range(invocations[i].args) => body # Empty

\* C7 amended: an invocation of httpstat carries the Content-Type header
\* exactly when the command is post, put or patch, with or without a body.
C7_ContentTypeOfBodyCommands ==
    \A i \in 1..Len(invocations) :
        ContentType \in Range(invocations[i].args) <=> cmd.name \in BodyCommands

C7_Witness ==
    /\ cmd.name = "post" /\ cmd.data.text = Empty /\ cmd.file = Empty
    /\ body = Empty /\ Len(invocations) = 1
    /\ ContentType \in Range(invocations[1].args)

\* the body of post, put, patch cannot be resolved
BodyUnresolvable ==
    \/ cmd.data.text # Empty /\ ~isJSON(cmd.data)
    \/ cmd.data.text = Empty /\ cmd.file # Empty
          /\ (env.paramFile.kind = "missing" \/ ~isJSON(env.paramFile))

\* C8 as stated: in get, delete, post, put and patch the configuration is
\* validated before the body or query is resolved: with a stored configuration
\* that lacks its URL or its token the command fails with NotConfigured or
\* NotAuthenticated and the parameter file is not read (the conflict of --data
\* and --file, checked before any I/O, aside).
C8_ValidateBeforeResolve ==
    (cmd.name \in RequestCommands /\ StoredIncomplete /\ pc = "done"
        /\ ~ConflictingParameters(cmd))
    => (err \in {"NotConfigured", "NotAuthenticated"}
        /\ "readParam" \notin Range(io))

\* C8 amended: get and delete validate the configuration, then resolve the
\* query: with an incomplete stored configuration they fail with NotConfigured
\* or NotAuthenticated and have read the configuration only.  post, put and
\* patch resolve the body first: a body that cannot be resolved fails with
\* InvalidJSON or the read error whatever the stored configuration, which is
\* then not read, and the configuration is read only after the body resolved
\* (after the parameter file, when the body comes from it).
C8_OrderPerCommand ==
    /\ (cmd.name \in QueryCommands /\ StoredIncomplete /\ pc = "done")
          => (err \in {"NotConfigured", "NotAuthenticated"}
              /\ io = <<"readConfig">>)
    /\ (cmd.name \in QueryCommands /\ "readParam" \in Range(io))
          => (io[1] = "readConfig" /\ ~StoredIncomplete
              /\ config = Configuration(stored.URL, stored.Token))
    /\ (cmd.name \in BodyCommands /\ ~ConflictingParameters(cmd)
        /\ BodyUnresolvable /\ pc = "done")
          => (err \in {"InvalidJSON", "errRead"} /\ "readConfig" \notin Range(io))
    /\ (cmd.name \in BodyCommands /\ "readConfig" \in Range(io))
          => (~BodyUnresolvable
              /\ io[1] = (IF cmd.data.text = Empty /\ cmd.file # Empty
                          THEN "readParam" ELSE "readConfig"))

\* post --data with malformed JSON on a configuration without a URL
C8_Witness ==
    /\ cmd.name = "post" /\ cmd.data = DataBad /\ cmd.file = Empty
    /\ stored.exists /\ stored.URL = Empty
    /\ pc = "done" /\ err = "InvalidJSON" /\ io = << >>

---------------------------------------------------------------------------
(* Properties of the flattener (SpecFlatten) *)

Flattened == fpc \in {"returned", "crashed"}

\* the query string holds a pair of key k
HasPair(q, k) == Contains(q, <<k, "=">>)

\* C5: for a parameter file that holds a JSON object, the flattener returns
\* without error and without a crash, and the query string has a pair for
\* exactly the keys whose value is an integer, a float, a boolean or a string.
C5_SkipsNonScalarsWithoutError ==
    (Flattened /\ ffile.kind = "object")
    => /\ fpc = "returned" /\ fres.status = "ok"
       /\ \A k \in Keys :
             HasPair(fres.q, k)
                <=> (k \in DOMAIN ffile.obj /\ ffile.obj[k].t \in ScalarTypes)

\* the text of a scalar in the query string
TextOf(v) ==
    CASE v.t = "int" -> FormatInt(v.n)
      [] v.t = "float" -> FormatFloat(v.n)
      [] v.t = "bool" -> (IF v.n = 1 THEN <<"true">> ELSE <<"false">>)
      [] OTHER -> v.s

\* the query string without its "?", split on "&", each piece split on "="
Resplit(q) ==
    IF q = Empty THEN {}
    ELSE {Split(piece, "=") : piece \in Range(Split(Tail(q), "&"))}

\* C6: for a JSON object of scalars only, splitting the query string on "&"
\* and "=" recovers exactly the key/value pairs of the object.
C6_RoundTrip ==
    (Flattened /\ ffile.kind = "object"
        /\ \A k \in DOMAIN ffile.obj : ffile.obj[k].t \in ScalarTypes)
    => /\ fres.status = "ok"
       /\ Resplit(fres.q) = {<<(<<k>>), TextOf(ffile.obj[k])>> : k \in DOMAIN ffile.obj}

---------------------------------------------------------------------------
(* Properties of executeJqCommand (SpecJq) *)

LaunchFailed == cat = "failed" \/ jq = "failed"

BothStopped == cat \in {"exited", "failed"} /\ jq \in {"exited", "failed"}

\* C9: when cat or jq failed to launch, executeJqCommand reports the failure:
\* it does not return a nil error.
C9_LaunchFailureReported ==
    (jres.returned /\ LaunchFailed) => jres.err # "nil"

\* C10: once both subprocesses have exited or failed to launch,
\* executeJqCommand eventually returns.
C10_ReturnsOnceBothStopped == BothStopped ~> jres.returned

===========================================================================
